---- MODULE Spec2Model ----
(***************************************************************************)
(* Model of aws_doc_sdk_examples_tools/snippets.py: the snippet tag        *)
(* scanner (parse_snippets), tag extraction (_tag_from_line), the          *)
(* collector (collect_snippets) and the emitter (write_snippets).          *)
(* Text is modelled as sequences of one-character strings, so that         *)
(* substring search, slicing and stripping are computed as Python does.    *)
(***************************************************************************)
EXTENDS Integers, Sequences, FiniteSets, TLC

\* ------------------------------------------------------------------ bounds
MaxLines == 4
MaxRest == 3
MaxFiles == 2
MaxEmissions == 2
MaxExamples == 2

\* ------------------------------------------------------- string primitives
SNIPPET_START == <<"s","n","i","p","p","e","t","-","s","t","a","r","t",":","[">>
SNIPPET_END == <<"s","n","i","p","p","e","t","-","e","n","d",":","[">>

Whitespace == {" ", "\n", "\t", "\r"}

SetMin(S) == CHOOSE x \in S : \A y \in S : x <= y

\* str.find(sub, start): lowest 0-based index >= start where sub occurs, or -1
Find(s, sub, start) ==
    LET cands == {i \in start..(Len(s) - Len(sub)) :
                     \A k \in 1..Len(sub) : s[i + k] = sub[k]}
    IN  IF cands = {} THEN -1 ELSE SetMin(cands)

\* the `sub in s` test
Contains(sub, s) == Find(s, sub, 0) # -1

\* s[a:b] with Python's treatment of negative and out-of-range indices
Slice(s, a, b) ==
    LET n == Len(s)
        norm(i) == IF i < 0 THEN (IF i + n < 0 THEN 0 ELSE i + n)
                   ELSE (IF i > n THEN n ELSE i)
        lo == norm(a)
        hi == norm(b)
    IN  IF lo < hi THEN SubSeq(s, lo + 1, hi) ELSE <<>>

\* str.strip(): drop leading and trailing whitespace
Strip(s) ==
    LET keep == {i \in 1..Len(s) : s[i] \notin Whitespace}
    IN  IF keep = {} THEN <<>>
        ELSE SubSeq(s, SetMin(keep), CHOOSE x \in keep : \A y \in keep : y <= x)

_tag_from_line(token, line, prefix) ==
    LET tag_start == Find(line, token, 0) + Len(token)
        tag_end == Find(line, <<"]">>, tag_start)
    IN  prefix \o Strip(Slice(line, tag_start, tag_end))

\* ------------------------------------------------------------ parse_snippets
\* Snippet(id, file, line_start, line_end, code)
Snippet(id, file, line_start, line_end, code) ==
    [id |-> id, file |-> file, line_start |-> line_start,
     line_end |-> line_end, code |-> code]

\* SnippetError subclasses: file, line, tag plus the class as `kind`
SnippetError(kind, file, line, tag) ==
    [kind |-> kind, file |-> file, line |-> line, tag |-> tag]

EmptyMap == [t \in {} |-> 0]

\* the scanner's locals: snippets, errors, open_tags
ParseState(snips, errs, open) ==
    [snippets |-> snips, errors |-> errs, open_tags |-> open]

\* variant of StartLine: a repeated start marker reopens the tag
StartLine_Reopens(st, line_idx, line, file, prefix) ==
    LET tag == _tag_from_line(SNIPPET_START, line, prefix)
    IN  IF tag \in DOMAIN st.snippets
        THEN ParseState(st.snippets,
                 Append(st.errors,
                     SnippetError("DuplicateSnippetStartError", file, line_idx, tag)),
                 st.open_tags \cup {tag})
        ELSE ParseState(
                 [t \in DOMAIN st.snippets \cup {tag} |->
                     IF t = tag THEN Snippet(tag, file, line_idx, -1, <<>>)
                     ELSE st.snippets[t]],
                 st.errors,
                 st.open_tags \cup {tag})

\* variant of StartLine: line_start counted from one
StartLine_OneBased(st, line_idx, line, file, prefix) ==
    LET tag == _tag_from_line(SNIPPET_START, line, prefix)
    IN  IF tag \in DOMAIN st.snippets
        THEN ParseState(st.snippets,
                 Append(st.errors,
                     SnippetError("DuplicateSnippetStartError", file, line_idx, tag)),
                 st.open_tags)
        ELSE ParseState(
                 [t \in DOMAIN st.snippets \cup {tag} |->
                     IF t = tag THEN Snippet(tag, file, line_idx + 1, -1, <<>>)
                     ELSE st.snippets[t]],
                 st.errors,
                 st.open_tags \cup {tag})

\* branch `if SNIPPET_START in line`
StartLine(st, line_idx, line, file, prefix) ==
    LET tag == _tag_from_line(SNIPPET_START, line, prefix)
    IN  IF tag \in DOMAIN st.snippets
        THEN ParseState(st.snippets,
                 Append(st.errors,
                     SnippetError("DuplicateSnippetStartError", file, line_idx, tag)),
                 st.open_tags)
        ELSE ParseState(
                 [t \in DOMAIN st.snippets \cup {tag} |->
                     IF t = tag THEN Snippet(tag, file, line_idx, -1, <<>>)
                     ELSE st.snippets[t]],
                 st.errors,
                 st.open_tags \cup {tag})

\* variant of EndLine: an unmatched end marker is reported one line late
EndLine_OneBased(st, line_idx, line, file, prefix) ==
    LET tag == _tag_from_line(SNIPPET_END, line, prefix)
    IN  IF tag \notin DOMAIN st.snippets
        THEN ParseState(st.snippets,
                 Append(st.errors,
                     SnippetError("MissingSnippetStartError", file, line_idx + 1, tag)),
                 st.open_tags)
        ELSE IF tag \notin st.open_tags
        THEN ParseState(st.snippets,
                 Append(st.errors,
                     SnippetError("DuplicateSnippetEndError", file, line_idx, tag)),
                 st.open_tags)
        ELSE ParseState(
                 [st.snippets EXCEPT ![tag].line_end = line_idx],
                 st.errors,
                 st.open_tags \ {tag})

\* variant of EndLine: a repeated end marker moves line_end
EndLine_Overwrites(st, line_idx, line, file, prefix) ==
    LET tag == _tag_from_line(SNIPPET_END, line, prefix)
    IN  IF tag \notin DOMAIN st.snippets
        THEN ParseState(st.snippets,
                 Append(st.errors,
                     SnippetError("MissingSnippetStartError", file, line_idx, tag)),
                 st.open_tags)
        ELSE IF tag \notin st.open_tags
        THEN ParseState([st.snippets EXCEPT ![tag].line_end = line_idx],
                 Append(st.errors,
                     SnippetError("DuplicateSnippetEndError", file, line_idx, tag)),
                 st.open_tags)
        ELSE ParseState(
                 [st.snippets EXCEPT ![tag].line_end = line_idx],
                 st.errors,
                 st.open_tags \ {tag})

\* variant of EndLine: a matched end marker leaves the tag in the open set
EndLine_KeepsOpen(st, line_idx, line, file, prefix) ==
    LET tag == _tag_from_line(SNIPPET_END, line, prefix)
    IN  IF tag \notin DOMAIN st.snippets
        THEN ParseState(st.snippets,
                 Append(st.errors,
                     SnippetError("MissingSnippetStartError", file, line_idx, tag)),
                 st.open_tags)
        ELSE IF tag \notin st.open_tags
        THEN ParseState(st.snippets,
                 Append(st.errors,
                     SnippetError("DuplicateSnippetEndError", file, line_idx, tag)),
                 st.open_tags)
        ELSE ParseState(
                 [st.snippets EXCEPT ![tag].line_end = line_idx],
                 st.errors,
                 st.open_tags)

\* branch `elif SNIPPET_END in line`
EndLine(st, line_idx, line, file, prefix) ==
    LET tag == _tag_from_line(SNIPPET_END, line, prefix)
    IN  IF tag \notin DOMAIN st.snippets
        THEN ParseState(st.snippets,
                 Append(st.errors,
                     SnippetError("MissingSnippetStartError", file, line_idx, tag)),
                 st.open_tags)
        ELSE IF tag \notin st.open_tags
        THEN ParseState(st.snippets,
                 Append(st.errors,
                     SnippetError("DuplicateSnippetEndError", file, line_idx, tag)),
                 st.open_tags)
        ELSE ParseState(
                 [st.snippets EXCEPT ![tag].line_end = line_idx],
                 st.errors,
                 st.open_tags \ {tag})

\* variant of PlainLine: only one of the open snippets receives the line
PlainLine_OnlyOne(st, line_idx, line, file, prefix) ==
    ParseState(
        [t \in DOMAIN st.snippets |->
            IF st.open_tags # {} /\ t = (CHOOSE o \in st.open_tags : TRUE)
            THEN [st.snippets[t] EXCEPT !.code = @ \o line]
            ELSE st.snippets[t]],
        st.errors,
        st.open_tags)

\* variant of PlainLine: every snippet of the mapping receives the line
PlainLine_AllSnippets(st, line_idx, line, file, prefix) ==
    ParseState(
        [t \in DOMAIN st.snippets |-> [st.snippets[t] EXCEPT !.code = @ \o line]],
        st.errors,
        st.open_tags)

\* branch `else`: the line is appended to every open snippet
PlainLine(st, line_idx, line, file, prefix) ==
    ParseState(
        [t \in DOMAIN st.snippets |->
            IF t \in st.open_tags
            THEN [st.snippets[t] EXCEPT !.code = @ \o line]
            ELSE st.snippets[t]],
        st.errors,
        st.open_tags)

\* variant of ParseLine: the end marker is looked for first
ParseLine_EndFirst(st, line_idx, line, file, prefix) ==
    IF Contains(SNIPPET_END, line) THEN EndLine(st, line_idx, line, file, prefix)
    ELSE IF Contains(SNIPPET_START, line) THEN StartLine(st, line_idx, line, file, prefix)
    ELSE PlainLine(st, line_idx, line, file, prefix)

\* one iteration of `for line_idx, line in enumerate(lines)`
ParseLine(st, line_idx, line, file, prefix) ==
    IF Contains(SNIPPET_START, line) THEN StartLine(st, line_idx, line, file, prefix)
    ELSE IF Contains(SNIPPET_END, line) THEN EndLine(st, line_idx, line, file, prefix)
    ELSE PlainLine(st, line_idx, line, file, prefix)

\* the orders in which `for tag in open_tags` can visit a set
IterationOrders(S) ==
    {f \in [1..Cardinality(S) -> S] : \A i, j \in 1..Cardinality(S) : i # j => f[i] # f[j]}

\* variant of MissingEnds: the diagnostic carries line_end
MissingEnds_LineEnd(snips, order, file) ==
    [i \in 1..Len(order) |->
        SnippetError("MissingSnippetEndError", file, snips[order[i]].line_end, order[i])]

\* the trailing loop: one MissingSnippetEndError per tag, in visiting order
MissingEnds(snips, order, file) ==
    [i \in 1..Len(order) |->
        SnippetError("MissingSnippetEndError", file, snips[order[i]].line_start, order[i])]

\* the loop of parse_snippets from line index i to the end of `lines`
RECURSIVE ScanFrom(_, _, _, _, _)
ScanFrom(st, i, lines, file, prefix) ==
    IF i >= Len(lines) THEN st
    ELSE ScanFrom(ParseLine(st, i, lines[i + 1], file, prefix), i + 1, lines, file, prefix)

\* parse_snippets as a whole: the results it can return, one per visiting
\* order of the tags left open
parse_snippets(lines, file, prefix) ==
    LET st == ScanFrom(ParseState(EmptyMap, <<>>, {}), 0, lines, file, prefix)
    IN  {[snippets |-> st.snippets,
          errors |-> st.errors \o MissingEnds(st.snippets, order, file)] :
            order \in IterationOrders(st.open_tags)}

\* ------------------------------------------- find_snippets, collect_snippets
MetadataUnicodeError(file) == [kind |-> "MetadataUnicodeError", file |-> file]

\* a source file: its path, whether it decodes as utf-8, its lines
SourceFile(path, decodable, lines) ==
    [path |-> path, decodable |-> decodable, lines |-> lines]

find_snippets(f, prefix) ==
    IF f.decodable
    THEN parse_snippets(f.lines, f.path, prefix)
    ELSE {[snippets |-> EmptyMap, errors |-> <<MetadataUnicodeError(f.path)>>]}

\* variant of DictUpdate: a key already present keeps its value
DictUpdate_KeepsFirst(acc, snips) ==
    [t \in DOMAIN acc \cup DOMAIN snips |->
        IF t \in DOMAIN acc THEN acc[t] ELSE snips[t]]

\* dict.update: `snippets.update(snips)`
DictUpdate(acc, snips) ==
    [t \in DOMAIN acc \cup DOMAIN snips |->
        IF t \in DOMAIN snips THEN snips[t] ELSE acc[t]]

\* key order of the dict parse_snippets builds: insertion follows line_start
RECURSIVE DictKeys(_)
DictKeys(snips) ==
    IF DOMAIN snips = {} THEN <<>>
    ELSE LET t == CHOOSE t \in DOMAIN snips :
                     \A u \in DOMAIN snips : snips[t].line_start <= snips[u].line_start
         IN  <<t>> \o DictKeys([u \in DOMAIN snips \ {t} |-> snips[u]])

\* key order after dict.update: old keys keep their place, new keys follow
KeysAfterUpdate(order, acc, snips) ==
    order \o SelectSeq(DictKeys(snips), LAMBDA t : t \notin DOMAIN acc)

\* ------------------------------------------------------------ write_snippets
\* name = root / f"{tag}.txt"
ArtifactName(tag) == tag \o <<".", "t", "x", "t">>

SnippetAlreadyWritten(name) == [kind |-> "SnippetAlreadyWritten", file |-> name]
SnippetWriteError(name, cause) ==
    [kind |-> "SnippetWriteError", file |-> name, error |-> cause]

\* file_utils.clear: the output directory is left empty
clear(dir) == EmptyMap

\* MetadataErrors.maybe_extend: bulk merge of another collection
maybe_extend(errs, more) == errs \o more

\* concatenation of a sequence of sequences
RECURSIVE FlattenFirst(_, _)
FlattenFirst(ls, n) == IF n = 0 THEN <<>> ELSE FlattenFirst(ls, n - 1) \o ls[n]
Flatten(ls) == FlattenFirst(ls, Len(ls))

\* --------------------------------------------------------- validate_snippets
\* the catalog: Example.file/.languages, Language.versions,
\* Version.sdk_version/.excerpts, Excerpt.snippet_tags/.snippet_files
Excerpt(snippet_tags, snippet_files) ==
    [snippet_tags |-> snippet_tags, snippet_files |-> snippet_files]
Version(sdk_version, excerpts) == [sdk_version |-> sdk_version, excerpts |-> excerpts]
Language(lang, versions) == [lang |-> lang, versions |-> versions]
Example(file, languages) == [file |-> file, languages |-> languages]

MissingSnippet(file, id, tag) ==
    [kind |-> "MissingSnippet", file |-> file, id |-> id, tag |-> tag]
MissingSnippetFile(file, id, snippet_file) ==
    [kind |-> "MissingSnippetFile", file |-> file, id |-> id, snippet_file |-> snippet_file]
WindowsUnsafeSnippetFile(file, id, snippet_file) ==
    [kind |-> "WindowsUnsafeSnippetFile", file |-> file, id |-> id,
     snippet_file |-> snippet_file]

\* str() of a non-negative int
Digits == <<"0", "1", "2", "3", "4", "5", "6", "7", "8", "9">>
RECURSIVE IntToStr(_)
IntToStr(n) ==
    IF n < 10 THEN <<Digits[n + 1]>> ELSE IntToStr(n \div 10) \o <<Digits[(n % 10) + 1]>>

\* f"{lang}:{version.sdk_version}"
ExampleId(lang, sdk_version) == lang \o <<":">> \o IntToStr(sdk_version)

\* win_unsafe_re = r'[:*?"<>|]' and re.search
win_unsafe_re == {":", "*", "?", "\"", "<", ">", "|"}
WindowsUnsafe(snippet_file) ==
    \E i \in 1..Len(snippet_file) : snippet_file[i] \in win_unsafe_re

\* the iterations of the two innermost loops, in the order the nested loops
\* reach them: per excerpt, its snippet_tags then its snippet_files
ExcerptSteps(file, id, excerpt) ==
    [k \in 1..Len(excerpt.snippet_tags) |->
        [kind |-> "tag", file |-> file, id |-> id, value |-> excerpt.snippet_tags[k]]]
    \o [k \in 1..Len(excerpt.snippet_files) |->
        [kind |-> "file", file |-> file, id |-> id, value |-> excerpt.snippet_files[k]]]
VersionSteps(file, lang, version) ==
    FlattenFirst([k \in 1..Len(version.excerpts) |->
        ExcerptSteps(file, ExampleId(lang, version.sdk_version), version.excerpts[k])],
        Len(version.excerpts))
LanguageSteps(file, language) ==
    FlattenFirst([k \in 1..Len(language.versions) |->
        VersionSteps(file, language.lang, language.versions[k])],
        Len(language.versions))
ExampleSteps(example) ==
    FlattenFirst([k \in 1..Len(example.languages) |->
        LanguageSteps(example.file, example.languages[k])],
        Len(example.languages))
CatalogSteps(examples) ==
    FlattenFirst([k \in 1..Len(examples) |-> ExampleSteps(examples[k])], Len(examples))

\* variant of TagStep: a tag present in the mapping is reported as missing
TagStep_Inverted(errs, snips, step) ==
    IF step.value \in DOMAIN snips
    THEN Append(errs, MissingSnippet(step.file, step.id, step.value))
    ELSE errs

\* body of `for snippet_tag in excerpt.snippet_tags`: the new `errors`
TagStep(errs, snips, step) ==
    IF step.value \notin DOMAIN snips
    THEN Append(errs, MissingSnippet(step.file, step.id, step.value))
    ELSE errs

\* variant of FileStep: the name is only examined when the file exists
FileStep_ElseBranch(errs, existing, step) ==
    IF step.value \notin existing
    THEN Append(errs, MissingSnippetFile(step.file, step.id, step.value))
    ELSE IF WindowsUnsafe(step.value)
    THEN Append(errs, WindowsUnsafeSnippetFile(step.file, step.id, step.value))
    ELSE errs

\* body of `for snippet_file in excerpt.snippet_files`: the new `errors`;
\* existing is the set of paths under root that exist
FileStep(errs, existing, step) ==
    LET e1 == IF step.value \notin existing
              THEN Append(errs, MissingSnippetFile(step.file, step.id, step.value))
              ELSE errs
    IN  IF WindowsUnsafe(step.value)
        THEN Append(e1, WindowsUnsafeSnippetFile(step.file, step.id, step.value))
        ELSE e1

\* ------------------------------------------------------- inputs of the scanner
Hash == <<"#", " ">>
PlainA == <<"a", "\n">>
PlainB == <<"b", "\n">>
StartT1 == Hash \o SNIPPET_START \o <<"t", "1", "]", "\n">>
EndT1 == Hash \o SNIPPET_END \o <<"t", "1", "]", "\n">>
StartT2 == Hash \o SNIPPET_START \o <<"t", "2", "]", "\n">>
EndT2 == Hash \o SNIPPET_END \o <<"t", "2", "]", "\n">>
\* a line holding both markers
StartAndEnd == SNIPPET_START \o <<"t", "2", "]", " ">> \o SNIPPET_END \o <<"t", "1", "]", "\n">>

LineAlphabet == {PlainA, PlainB, StartT1, EndT1, StartT2, EndT2, StartAndEnd}

\* the example of the documentation: lines without terminators
ExampleLines ==
    << <<"a">>,
       SNIPPET_START \o <<"t", "a", "g", "1", "]">>,
       <<"b">>,
       <<"c">>,
       SNIPPET_END \o <<"t", "a", "g", "1", "]">>,
       <<"d">> >>

Files == UNION {[1..n -> LineAlphabet] : n \in 0..MaxLines} \cup {ExampleLines}
Prefixes == {<<>>, <<"p", ".">>}
ParseFile == "f.py"

\* ---------------------------------------------------------------- state
VARIABLES
    lines,      \* parse_snippets: the `lines` argument
    prefix,     \* the `prefix` argument of parse_snippets / collect_snippets
    line_idx,   \* index of the next line the loop will take
    snippets,   \* parse_snippets: Dict[str, Snippet]
    errors,     \* parse_snippets: MetadataErrors, an ordered list
    open_tags,  \* parse_snippets: Set[str]
    open_at,    \* history: open_tags as it was when each line was taken
    pc,         \* "scan" inside the loop, "done" after return, "idle" if unused
    tag_in,     \* _tag_from_line: its arguments
    tag_out,    \* _tag_from_line: its return value, once returned
    tree,       \* the files get_files yields, in order
    file_idx,   \* collect_snippets: number of files taken
    per_file,   \* history: what find_snippets returned for each file
    all_snippets,   \* collect_snippets: the accumulated Dict[str, Snippet]
    tag_order,      \* key order of that dict
    collect_errors, \* collect_snippets: the accumulated MetadataErrors
    disk,           \* the output directory: artifact name -> content
    disk_before,    \* history: disk when the current write_snippets call began
    write_idx,      \* write_snippets: number of tags taken
    write_errors,   \* write_snippets: its local MetadataErrors
    run_errors,     \* main: `errors`
    emissions,      \* completed calls of write_snippets
    run_pc,         \* "collect", "write", "done", or "idle" if unused
    examples,       \* validate_snippets: the `examples` argument
    v_snippets,     \* validate_snippets: the `snippets` argument
    snippet_files,  \* validate_snippets: the `snippet_files` argument, a set
    v_errors,       \* validate_snippets: the `errors` argument
    existing,       \* the paths under `root` that exist
    v_idx,          \* innermost-loop iterations done
    v_pc            \* "validate", "done", or "idle" if unused

parseVars == <<lines, line_idx, snippets, errors, open_tags, open_at, pc>>
tagVars == <<tag_in, tag_out>>
runVars == <<tree, file_idx, per_file, all_snippets, tag_order, collect_errors,
             disk, disk_before, write_idx, write_errors, run_errors, emissions, run_pc>>
validateVars == <<examples, v_snippets, snippet_files, v_errors, existing, v_idx, v_pc>>
vars == <<prefix, parseVars, tagVars, runVars, validateVars>>

ValidateIdle ==
    /\ examples = <<>>
    /\ v_snippets = EmptyMap
    /\ snippet_files = {}
    /\ v_errors = <<>>
    /\ existing = {}
    /\ v_idx = 0
    /\ v_pc = "idle"

ParseIdle ==
    /\ lines = <<>>
    /\ line_idx = 0
    /\ snippets = EmptyMap
    /\ errors = <<>>
    /\ open_tags = {}
    /\ open_at = <<>>
    /\ pc = "idle"

TagIdle ==
    /\ tag_in = [token |-> <<>>, line |-> <<>>, prefix |-> <<>>]
    /\ tag_out = [done |-> FALSE, tag |-> <<>>]

RunIdle ==
    /\ tree = <<>>
    /\ file_idx = 0
    /\ per_file = <<>>
    /\ all_snippets = EmptyMap
    /\ tag_order = <<>>
    /\ collect_errors = <<>>
    /\ disk = EmptyMap
    /\ disk_before = EmptyMap
    /\ write_idx = 0
    /\ write_errors = <<>>
    /\ run_errors = <<>>
    /\ emissions = 0
    /\ run_pc = "idle"

\* ------------------------------------------------- parse_snippets, line by line
CurLine == lines[line_idx + 1]
CurState == ParseState(snippets, errors, open_tags)

Init ==
    /\ lines \in Files
    /\ prefix \in Prefixes
    /\ line_idx = 0
    /\ snippets = EmptyMap
    /\ errors = <<>>
    /\ open_tags = {}
    /\ open_at = <<>>
    /\ pc = "scan"
    /\ TagIdle
    /\ RunIdle
    /\ ValidateIdle

ScanLine ==
    /\ pc = "scan"
    /\ line_idx < Len(lines)
    /\ LET st == ParseLine(CurState, line_idx, CurLine, ParseFile, prefix)
       IN  /\ snippets' = st.snippets
           /\ errors' = st.errors
           /\ open_tags' = st.open_tags
    /\ open_at' = Append(open_at, open_tags)
    /\ line_idx' = line_idx + 1
    /\ UNCHANGED <<lines, prefix, pc, tagVars, runVars, validateVars>>

Finish ==
    /\ pc = "scan"
    /\ line_idx = Len(lines)
    /\ \E order \in IterationOrders(open_tags) :
           errors' = errors \o MissingEnds(snippets, order, ParseFile)
    /\ pc' = "done"
    /\ UNCHANGED <<lines, prefix, line_idx, snippets, open_tags, open_at, tagVars, runVars, validateVars>>

Next == ScanLine \/ Finish

Spec == Init /\ [][Next]_vars

\* ------------------------------------------------- _tag_from_line on its own
TagChars == {"t", " ", "]", "\n"}
TagRests == UNION {[1..n -> TagChars] : n \in 0..MaxRest}
TagInputs ==
    {[token |-> tok, line |-> lead \o tok \o rest, prefix |-> pre] :
        tok \in {SNIPPET_START, SNIPPET_END}, lead \in {<<>>, Hash},
        rest \in TagRests, pre \in Prefixes}

InitTag ==
    /\ tag_in \in TagInputs
    /\ tag_out = [done |-> FALSE, tag |-> <<>>]
    /\ prefix = tag_in.prefix
    /\ ParseIdle
    /\ RunIdle
    /\ ValidateIdle

ExtractTag ==
    /\ ~tag_out.done
    /\ tag_in.token # <<>>
    /\ tag_out' = [done |-> TRUE,
                   tag |-> _tag_from_line(tag_in.token, tag_in.line, tag_in.prefix)]
    /\ UNCHANGED <<tag_in, prefix, parseVars, runVars, validateVars>>

NextTag == ExtractTag

SpecTag == InitTag /\ [][NextTag]_vars

\* ------------------------------------- main: collect_snippets, write_snippets
Undecodable == [decodable |-> FALSE, lines |-> <<>>]
Text(ls) == [decodable |-> TRUE, lines |-> ls]
RunFileContents ==
    { Text(<<StartT1, PlainA, EndT1>>),
      Text(<<StartT1, PlainB, EndT1>>),
      Text(<<StartT2, PlainA>>),
      Text(<<StartT1, StartT2, PlainB, EndT2>>),
      Text(<<StartT2, StartT1>>),
      Text(<<EndT2, PlainA>>),
      Undecodable }
Trees == UNION {[1..n -> RunFileContents] : n \in 0..MaxFiles}
StaleDisk == [n \in {ArtifactName(<<"t", "1">>)} |-> <<"o", "l", "d">>]

InitRun ==
    /\ tree \in Trees
    /\ prefix \in Prefixes
    /\ file_idx = 0
    /\ per_file = <<>>
    /\ all_snippets = EmptyMap
    /\ tag_order = <<>>
    /\ collect_errors = <<>>
    /\ disk \in {EmptyMap, StaleDisk}
    /\ disk_before = EmptyMap
    /\ write_idx = 0
    /\ write_errors = <<>>
    /\ run_errors = <<>>
    /\ emissions = 0
    /\ run_pc = "collect"
    /\ ParseIdle
    /\ TagIdle
    /\ ValidateIdle

\* variant of CollectFile: a file that does not decode ends the loop
CollectFile_Aborts ==
    /\ run_pc = "collect"
    /\ file_idx < Len(tree)
    /\ LET c == tree[file_idx + 1]
           f == SourceFile(file_idx + 1, c.decodable, c.lines)
       IN  \E r \in find_snippets(f, prefix) :
               /\ all_snippets' = DictUpdate(all_snippets, r.snippets)
               /\ tag_order' = KeysAfterUpdate(tag_order, all_snippets, r.snippets)
               /\ collect_errors' = collect_errors \o r.errors
               /\ per_file' = Append(per_file, r)
               /\ file_idx' = IF c.decodable THEN file_idx + 1 ELSE Len(tree)
    /\ UNCHANGED <<tree, prefix, disk, disk_before, write_idx, write_errors, run_errors,
                   emissions, run_pc, parseVars, tagVars, validateVars>>

\* one iteration of `for file in get_files(...)`
CollectFile ==
    /\ run_pc = "collect"
    /\ file_idx < Len(tree)
    /\ LET c == tree[file_idx + 1]
           f == SourceFile(file_idx + 1, c.decodable, c.lines)
       IN  \E r \in find_snippets(f, prefix) :
               /\ all_snippets' = DictUpdate(all_snippets, r.snippets)
               /\ tag_order' = KeysAfterUpdate(tag_order, all_snippets, r.snippets)
               /\ collect_errors' = collect_errors \o r.errors
               /\ per_file' = Append(per_file, r)
    /\ file_idx' = file_idx + 1
    /\ UNCHANGED <<tree, prefix, disk, disk_before, write_idx, write_errors, run_errors,
                   emissions, run_pc, parseVars, tagVars, validateVars>>

\* collect_snippets returns; main clears the output directory
ClearOut ==
    /\ run_pc = "collect"
    /\ file_idx = Len(tree)
    /\ run_errors' = collect_errors
    /\ disk' = clear(disk)
    /\ disk_before' = clear(disk)
    /\ write_idx' = 0
    /\ write_errors' = <<>>
    /\ run_pc' = "write"
    /\ UNCHANGED <<tree, prefix, file_idx, per_file, all_snippets, tag_order,
                   collect_errors, emissions, parseVars, tagVars, validateVars>>

WriteTagName == ArtifactName(tag_order[write_idx + 1])
WriteTagCode == all_snippets[tag_order[write_idx + 1]].code
Writing == run_pc = "write" /\ write_idx < Len(tag_order)
WriteFrame ==
    UNCHANGED <<tree, prefix, file_idx, per_file, all_snippets, tag_order, collect_errors,
                disk_before, run_errors, emissions, run_pc, parseVars, tagVars, validateVars>>

\* variant of WriteTagExists: an existing artifact is silently rewritten
WriteTagExists_Overwrites ==
    /\ Writing
    /\ WriteTagName \in DOMAIN disk
    /\ disk' = [disk EXCEPT ![WriteTagName] = WriteTagCode]
    /\ write_idx' = write_idx + 1
    /\ UNCHANGED write_errors
    /\ WriteFrame

\* `if name.exists()`
WriteTagExists ==
    /\ Writing
    /\ WriteTagName \in DOMAIN disk
    /\ write_errors' = Append(write_errors, SnippetAlreadyWritten(WriteTagName))
    /\ write_idx' = write_idx + 1
    /\ UNCHANGED disk
    /\ WriteFrame

\* open and write succeed
WriteTagOk ==
    /\ Writing
    /\ WriteTagName \notin DOMAIN disk
    /\ disk' = [n \in DOMAIN disk \cup {WriteTagName} |->
                   IF n = WriteTagName THEN WriteTagCode ELSE disk[n]]
    /\ write_idx' = write_idx + 1
    /\ UNCHANGED write_errors
    /\ WriteFrame

\* variant of WriteTagOpenFails: the failure ends the loop
WriteTagOpenFails_Aborts ==
    /\ Writing
    /\ WriteTagName \notin DOMAIN disk
    /\ write_errors' = Append(write_errors, SnippetWriteError(WriteTagName, "open"))
    /\ write_idx' = Len(tag_order)
    /\ UNCHANGED disk
    /\ WriteFrame

\* open raises: no artifact is created
WriteTagOpenFails ==
    /\ Writing
    /\ WriteTagName \notin DOMAIN disk
    /\ write_errors' = Append(write_errors, SnippetWriteError(WriteTagName, "open"))
    /\ write_idx' = write_idx + 1
    /\ UNCHANGED disk
    /\ WriteFrame

\* write raises after open created the artifact: part of the code is in it
WriteTagWriteFails ==
    /\ Writing
    /\ WriteTagName \notin DOMAIN disk
    /\ \E k \in 0..(IF Len(WriteTagCode) = 0 THEN 0 ELSE Len(WriteTagCode) - 1) :
           disk' = [n \in DOMAIN disk \cup {WriteTagName} |->
                       IF n = WriteTagName THEN SubSeq(WriteTagCode, 1, k) ELSE disk[n]]
    /\ write_errors' = Append(write_errors, SnippetWriteError(WriteTagName, "write"))
    /\ write_idx' = write_idx + 1
    /\ WriteFrame

\* write_snippets returns; main merges its diagnostics
FinishWrite ==
    /\ run_pc = "write"
    /\ write_idx = Len(tag_order)
    /\ run_errors' = IF emissions = 0 THEN maybe_extend(run_errors, write_errors)
                     ELSE run_errors
    /\ emissions' = emissions + 1
    /\ run_pc' = "done"
    /\ UNCHANGED <<tree, prefix, file_idx, per_file, all_snippets, tag_order, collect_errors,
                   disk, disk_before, write_idx, write_errors, parseVars, tagVars, validateVars>>

\* write_snippets called again with the same mapping and output directory
WriteAgain ==
    /\ run_pc = "done"
    /\ emissions < MaxEmissions
    /\ write_idx' = 0
    /\ write_errors' = <<>>
    /\ disk_before' = disk
    /\ run_pc' = "write"
    /\ UNCHANGED <<tree, prefix, file_idx, per_file, all_snippets, tag_order,
                   collect_errors, disk, run_errors, emissions, parseVars, tagVars, validateVars>>

NextRun ==
    \/ CollectFile
    \/ ClearOut
    \/ WriteTagExists
    \/ WriteTagOk
    \/ WriteTagOpenFails
    \/ WriteTagWriteFails
    \/ FinishWrite
    \/ WriteAgain

SpecRun == InitRun /\ [][NextRun]_vars

\* --------------------------------------------------------- validate_snippets
T1 == <<"t", "1">>
T2 == <<"t", "2">>
PathF == <<"f", ".", "t", "x", "t">>
PathG == <<"d", "/", "g">>
PathQ == <<"a", "?", ".", "t", "x", "t">>
PathB == <<"d", "/", "b", "|">>
Py == <<"p", "y">>
Go == <<"g", "o">>

CatalogExamples ==
    { Example("e1.yaml",
        <<Language(Py, <<Version(3, <<Excerpt(<<T1>>, <<PathF>>)>>)>>)>>),
      Example("e2.yaml",
        <<Language(Py, <<Version(2, <<Excerpt(<<T1, T2>>, <<>>)>>),
                         Version(3, <<Excerpt(<<>>, <<PathF, PathQ>>),
                                      Excerpt(<<T2>>, <<PathG, PathB>>)>>)>>),
          Language(Go, <<Version(1, <<Excerpt(<<T2, T2>>, <<PathQ>>)>>)>>)>>),
      Example("e3.yaml",
        <<Language(Go, <<Version(10, <<Excerpt(<<T2>>, <<PathG>>)>>)>>)>>),
      Example("e4.yaml", <<>>) }
Catalogs == UNION {[1..n -> CatalogExamples] : n \in 0..MaxExamples}
SnippetMaps ==
    { EmptyMap,
      [t \in {T1} |-> Snippet(t, "f.py", 0, 2, PlainA)],
      [t \in {T1, T2} |-> Snippet(t, "f.py", 0, 2, PlainA)] }
ExistingSets == { {}, {PathF, PathQ}, {PathF, PathQ, PathG, PathB} }
PriorErrors == { <<>>, <<MetadataUnicodeError("f.py")>> }

InitValidate ==
    /\ examples \in Catalogs
    /\ v_snippets \in SnippetMaps
    /\ snippet_files = {}
    /\ v_errors \in PriorErrors
    /\ existing \in ExistingSets
    /\ v_idx = 0
    /\ v_pc = "validate"
    /\ prefix = <<>>
    /\ ParseIdle
    /\ TagIdle
    /\ RunIdle

CurStep == CatalogSteps(examples)[v_idx + 1]
Validating == v_pc = "validate" /\ v_idx < Len(CatalogSteps(examples))

\* one iteration of `for snippet_tag in excerpt.snippet_tags`
ValidateTag ==
    /\ Validating
    /\ CurStep.kind = "tag"
    /\ v_errors' = TagStep(v_errors, v_snippets, CurStep)
    /\ v_idx' = v_idx + 1
    /\ UNCHANGED <<examples, v_snippets, snippet_files, existing, v_pc,
                   prefix, parseVars, tagVars, runVars>>

\* one iteration of `for snippet_file in excerpt.snippet_files`
ValidateFile ==
    /\ Validating
    /\ CurStep.kind = "file"
    /\ v_errors' = FileStep(v_errors, existing, CurStep)
    /\ snippet_files' = snippet_files \cup {CurStep.value}
    /\ v_idx' = v_idx + 1
    /\ UNCHANGED <<examples, v_snippets, existing, v_pc,
                   prefix, parseVars, tagVars, runVars>>

\* the outermost loop is exhausted: validate_snippets returns
FinishValidate ==
    /\ v_pc = "validate"
    /\ v_idx = Len(CatalogSteps(examples))
    /\ v_pc' = "done"
    /\ UNCHANGED <<examples, v_snippets, snippet_files, v_errors, existing, v_idx,
                   prefix, parseVars, tagVars, runVars>>

NextValidate == ValidateTag \/ ValidateFile \/ FinishValidate

SpecValidate == InitValidate /\ [][NextValidate]_vars

\* ------------------------------------------------------ properties: scanner
\* line i (1-based position in `lines`) contains neither marker
IsPlain(i) == ~Contains(SNIPPET_START, lines[i]) /\ ~Contains(SNIPPET_END, lines[i])

\* the plain lines among the first n that were taken while tag was open
RECURSIVE OpenPlainText(_, _)
OpenPlainText(tag, n) ==
    IF n = 0 THEN <<>>
    ELSE OpenPlainText(tag, n - 1)
         \o (IF IsPlain(n) /\ tag \in open_at[n] THEN lines[n] ELSE <<>>)

\* the lines at 0-based indices strictly between lo and hi, markers dropped or kept
RECURSIVE TextBetween(_, _, _)
TextBetween(lo, hi, plainOnly) ==
    IF hi - lo <= 1 THEN <<>>
    ELSE TextBetween(lo, hi - 1, plainOnly)
         \o (IF plainOnly /\ ~IsPlain(hi) THEN <<>> ELSE lines[hi])

Closed(tag) == snippets[tag].line_end # -1

\* C1: every snippet's code is the in-order concatenation of exactly the
\* marker-free lines taken while its tag was open (so a plain line goes to
\* every open tag), and a start...end pair with only plain lines between
\* yields exactly those lines.
C1_CodeIsOpenPlainLines ==
    \A tag \in DOMAIN snippets :
        /\ snippets[tag].code = OpenPlainText(tag, line_idx)
        /\ (Closed(tag) /\ \A i \in (snippets[tag].line_start + 2)..snippets[tag].line_end : IsPlain(i))
              => snippets[tag].code
                   = Flatten(SubSeq(lines, snippets[tag].line_start + 2, snippets[tag].line_end))

C1_Witness ==
    \E t, u \in DOMAIN snippets :
        /\ t # u
        /\ Closed(t)
        /\ snippets[t].code # <<>>
        /\ snippets[u].code # <<>>
        /\ snippets[u].line_start < snippets[t].line_end

\* C2 as stated: a closed snippet's code is every line strictly between
\* line_start and line_end, marker lines of other tags included.
C2_AllLinesBetween ==
    \A tag \in DOMAIN snippets :
        Closed(tag) =>
            snippets[tag].code
              = TextBetween(snippets[tag].line_start, snippets[tag].line_end, FALSE)

\* C2 amended: a closed snippet's code is, in order, every line strictly
\* between line_start and line_end that contains neither marker.
C2_PlainLinesBetween ==
    \A tag \in DOMAIN snippets :
        Closed(tag) =>
            snippets[tag].code
              = TextBetween(snippets[tag].line_start, snippets[tag].line_end, TRUE)

C2_Witness ==
    \E tag \in DOMAIN snippets :
        /\ Closed(tag)
        /\ \E i, j \in (snippets[tag].line_start + 2)..snippets[tag].line_end :
               IsPlain(i) /\ ~IsPlain(j)

ScanningStart == pc = "scan" /\ line_idx < Len(lines) /\ Contains(SNIPPET_START, CurLine)
ScanningEnd ==
    /\ pc = "scan" /\ line_idx < Len(lines)
    /\ ~Contains(SNIPPET_START, CurLine) /\ Contains(SNIPPET_END, CurLine)
StartTag == _tag_from_line(SNIPPET_START, CurLine, prefix)
EndTag == _tag_from_line(SNIPPET_END, CurLine, prefix)

\* C3: a start marker whose tag is already in the mapping adds exactly one
\* duplicate-start diagnostic (this line, this tag) and changes neither the
\* mapping nor the open set.
C3_DuplicateStart ==
    [][(ScanningStart /\ StartTag \in DOMAIN snippets) =>
          /\ errors' = Append(errors,
                 SnippetError("DuplicateSnippetStartError", ParseFile, line_idx, StartTag))
          /\ snippets' = snippets
          /\ open_tags' = open_tags]_vars

C3_Witness ==
    \E i \in 1..Len(errors) :
        /\ errors[i].kind = "DuplicateSnippetStartError"
        /\ Closed(errors[i].tag)
        /\ snippets[errors[i].tag].line_end < errors[i].line
        /\ errors[i].tag \notin open_tags

\* C4: an end marker whose tag is not in the mapping adds exactly one
\* missing-start diagnostic (this line, this tag), creates no snippet and
\* changes no snippet and not the open set.
C4_MissingStart ==
    [][(ScanningEnd /\ EndTag \notin DOMAIN snippets) =>
          /\ errors' = Append(errors,
                 SnippetError("MissingSnippetStartError", ParseFile, line_idx, EndTag))
          /\ snippets' = snippets
          /\ open_tags' = open_tags]_vars

C4_Witness ==
    \E i \in 1..Len(errors) :
        /\ errors[i].kind = "MissingSnippetStartError"
        /\ errors[i].tag \notin DOMAIN snippets
        /\ \E t \in open_tags : snippets[t].line_start < errors[i].line

\* C5: an end marker for a tag opened and already closed adds exactly one
\* duplicate-end diagnostic and keeps line_end; an end marker for an open
\* tag removes it from the open set and sets line_end to this line index,
\* with no diagnostic.
C5_EndOfKnownTag ==
    [][(ScanningEnd /\ EndTag \in DOMAIN snippets) =>
          IF EndTag \in open_tags
          THEN /\ open_tags' = open_tags \ {EndTag}
               /\ snippets'[EndTag].line_end = line_idx
               /\ errors' = errors
          ELSE /\ errors' = Append(errors,
                      SnippetError("DuplicateSnippetEndError", ParseFile, line_idx, EndTag))
               /\ snippets'[EndTag].line_end = snippets[EndTag].line_end
               /\ snippets[EndTag].line_end # -1
               /\ open_tags' = open_tags]_vars

C5_Witness ==
    \E i \in 1..Len(errors) :
        /\ errors[i].kind = "DuplicateSnippetEndError"
        /\ Closed(errors[i].tag)
        /\ snippets[errors[i].tag].line_end < errors[i].line

MissingEndIdx(tag) ==
    {i \in 1..Len(errors) :
        errors[i].kind = "MissingSnippetEndError" /\ errors[i].tag = tag}

\* C6: on return, each tag still open has exactly one missing-end diagnostic,
\* whose line is the tag's line_start; a closed tag has none; the count of
\* missing-end diagnostics is the count of unterminated tags.
C6_MissingEnd ==
    pc = "done" =>
        /\ \A tag \in open_tags :
               /\ Cardinality(MissingEndIdx(tag)) = 1
               /\ \A i \in MissingEndIdx(tag) : errors[i].line = snippets[tag].line_start
        /\ \A tag \in DOMAIN snippets :
               Closed(tag) => MissingEndIdx(tag) = {}
        /\ Cardinality({i \in 1..Len(errors) : errors[i].kind = "MissingSnippetEndError"})
             = Cardinality({tag \in DOMAIN snippets : ~Closed(tag)})

C6_Witness ==
    /\ pc = "done"
    /\ open_tags # {}
    /\ \E tag \in DOMAIN snippets : Closed(tag)
    /\ \E tag \in open_tags : snippets[tag].line_start > 0

ExampleTag == <<"t", "a", "g", "1">>
ExampleDone == lines = ExampleLines /\ prefix = <<>> /\ pc = "done"

\* C9 as stated: the six-line example (no line terminators, empty prefix)
\* gives one snippet tag1, line_start 1, line_end 4, code "b\nc\n", no
\* diagnostic.
C9_ExampleWithNewlines ==
    ExampleDone =>
        /\ DOMAIN snippets = {ExampleTag}
        /\ snippets[ExampleTag].line_start = 1
        /\ snippets[ExampleTag].line_end = 4
        /\ snippets[ExampleTag].code = <<"b", "\n", "c", "\n">>
        /\ errors = <<>>

\* C9 amended: the same example gives one snippet tag1, line_start 1,
\* line_end 4, code "bc" (the lines as given, nothing added), no diagnostic.
C9_ExampleVerbatim ==
    ExampleDone =>
        /\ DOMAIN snippets = {ExampleTag}
        /\ snippets[ExampleTag].id = ExampleTag
        /\ snippets[ExampleTag].line_start = 1
        /\ snippets[ExampleTag].line_end = 4
        /\ snippets[ExampleTag].code = <<"b", "c">>
        /\ errors = <<>>

C9_Witness == ExampleDone /\ DOMAIN snippets # {}

\* --------------------------------------- properties: collector and emitter
Unterminated(tag) == all_snippets[tag].line_end = -1

\* C7: a snippet left unterminated at end of file is not part of the result:
\* it is not in the mapping collect_snippets returns and write_snippets
\* writes no artifact for it.
C7_UnterminatedNeverValid ==
    run_pc \in {"write", "done"} =>
        \A tag \in DOMAIN all_snippets :
            /\ ~Unterminated(tag)
            /\ Unterminated(tag) => ArtifactName(tag) \notin DOMAIN disk

\* what follows the marker on the line given to _tag_from_line
TagRemainder ==
    SubSeq(tag_in.line,
           Find(tag_in.line, tag_in.token, 0) + Len(tag_in.token) + 1,
           Len(tag_in.line))

\* C8: with no "]" after the marker, the tag is the prefix followed by the
\* whole remainder of the line, stripped, no character dropped.
C8_NoBracketKeepsRemainder ==
    (tag_out.done /\ ~Contains(<<"]">>, TagRemainder)) =>
        tag_out.tag = tag_in.prefix \o Strip(TagRemainder)

\* the last of the first n files whose result defines tag
LastFileWith(tag, n) ==
    CHOOSE i \in 1..n :
        /\ tag \in DOMAIN per_file[i].snippets
        /\ \A j \in (i + 1)..n : tag \notin DOMAIN per_file[j].snippets

\* C10: the collected mapping is the right-biased union of the per-file
\* mappings in enumeration order, and the collected diagnostics are the
\* per-file diagnostic lists concatenated in that order, nothing added.
C10_RightBiasedUnion ==
    run_pc # "idle" =>
        /\ DOMAIN all_snippets = UNION {DOMAIN per_file[i].snippets : i \in 1..file_idx}
        /\ \A tag \in DOMAIN all_snippets :
               all_snippets[tag] = per_file[LastFileWith(tag, file_idx)].snippets[tag]
        /\ collect_errors = Flatten([i \in 1..file_idx |-> per_file[i].errors])

C10_Witness ==
    /\ run_pc = "write"
    /\ \E tag \in DOMAIN all_snippets :
           \E i, j \in 1..file_idx :
               /\ i < j
               /\ tag \in DOMAIN per_file[i].snippets
               /\ tag \in DOMAIN per_file[j].snippets
               /\ per_file[i].snippets[tag].code # per_file[j].snippets[tag].code
               /\ all_snippets[tag] = per_file[j].snippets[tag]
               /\ collect_errors = per_file[i].errors \o per_file[j].errors

\* tag is a key of the results of at least two of the files collected
DefinedInTwoFiles(tag) ==
    \E i, j \in 1..file_idx :
        /\ i < j
        /\ tag \in DOMAIN per_file[i].snippets
        /\ tag \in DOMAIN per_file[j].snippets

\* C11: when main's run is over (collect, clear, one write_snippets), every
\* tag defined in more than one source file has an already-written
\* diagnostic for its artifact in the run's diagnostics.
C11_CrossFileDuplicateReported ==
    (run_pc = "done" /\ emissions = 1) =>
        \A tag \in DOMAIN all_snippets :
            DefinedInTwoFiles(tag) =>
                \E i \in 1..Len(run_errors) :
                    run_errors[i] = SnippetAlreadyWritten(ArtifactName(tag))

\* ------------------------------------------------------ properties: validator
\* the places of the catalog that name a tag: example, language, version,
\* excerpt, position in snippet_tags
TagSites ==
    UNION {UNION {UNION {UNION {
        {<<a, b, c, d, k>> :
            k \in 1..Len(examples[a].languages[b].versions[c].excerpts[d].snippet_tags)} :
        d \in 1..Len(examples[a].languages[b].versions[c].excerpts)} :
        c \in 1..Len(examples[a].languages[b].versions)} :
        b \in 1..Len(examples[a].languages)} :
        a \in 1..Len(examples)}
SiteTag(s) ==
    examples[s[1]].languages[s[2]].versions[s[3]].excerpts[s[4]].snippet_tags[s[5]]
SiteDiagnostic(s) ==
    MissingSnippet(examples[s[1]].file,
                   ExampleId(examples[s[1]].languages[s[2]].lang,
                             examples[s[1]].languages[s[2]].versions[s[3]].sdk_version),
                   SiteTag(s))
Occurrences(errs, d) == Cardinality({i \in 1..Len(errs) : errs[i] = d})

ValidateDone == v_pc = "done"

\* C12: when validate_snippets returns, each place of the catalog naming a
\* tag has contributed one missing-snippet diagnostic (example file,
\* "{language}:{sdkVersion}", tag) if the tag is not a key of the mapping and
\* none if it is; the mapping and the catalog are never changed.
C12_MissingSnippetPerTag ==
    /\ [](ValidateDone =>
            /\ \A s \in TagSites :
                  Occurrences(v_errors, SiteDiagnostic(s))
                    = IF SiteTag(s) \in DOMAIN v_snippets THEN 0
                      ELSE Cardinality({u \in TagSites : SiteDiagnostic(u) = SiteDiagnostic(s)})
            /\ Cardinality({i \in 1..Len(v_errors) : v_errors[i].kind = "MissingSnippet"})
                 = Cardinality({s \in TagSites : SiteTag(s) \notin DOMAIN v_snippets}))
    /\ [][v_snippets' = v_snippets /\ examples' = examples]_vars

C12_Witness ==
    /\ ValidateDone
    /\ \E s, u \in TagSites :
          /\ SiteTag(s) \in DOMAIN v_snippets
          /\ SiteTag(u) \notin DOMAIN v_snippets
          /\ Occurrences(v_errors, SiteDiagnostic(u)) = 2
          /\ SiteDiagnostic(u).id = <<"g", "o", ":", "1">>

FileStepNow == Validating /\ CurStep.kind = "file"
HasReservedChar(p) ==
    \E c \in {":", "*", "?", "\"", "<", ">", "|"} : \E i \in 1..Len(p) : p[i] = c

\* C13: for a declared snippet file, a missing-snippet-file diagnostic is
\* appended iff the path does not exist under root, a windows-unsafe-filename
\* diagnostic iff the path has one of : * ? " < > |, each independently of
\* the other, and the file joins the output set in every case.
C13_FileChecksIndependent ==
    [][FileStepNow =>
         LET p == CurStep.value
             added == SubSeq(v_errors', Len(v_errors) + 1, Len(v_errors'))
             missing == MissingSnippetFile(CurStep.file, CurStep.id, p)
             unsafe == WindowsUnsafeSnippetFile(CurStep.file, CurStep.id, p)
         IN  /\ Len(v_errors') >= Len(v_errors)
             /\ SubSeq(v_errors', 1, Len(v_errors)) = v_errors
             /\ (Occurrences(added, missing) = 1) <=> (p \notin existing)
             /\ (Occurrences(added, unsafe) = 1) <=> HasReservedChar(p)
             /\ Len(added) = Occurrences(added, missing) + Occurrences(added, unsafe)
             /\ snippet_files' = snippet_files \cup {p}]_vars

HasFileDiag(kind, p) ==
    \E i \in 1..Len(v_errors) : v_errors[i].kind = kind /\ v_errors[i].snippet_file = p

C13_Witness ==
    /\ ValidateDone
    /\ {PathF, PathQ, PathG, PathB} \subseteq snippet_files
    /\ ~HasFileDiag("MissingSnippetFile", PathF) /\ ~HasFileDiag("WindowsUnsafeSnippetFile", PathF)
    /\ ~HasFileDiag("MissingSnippetFile", PathQ) /\ HasFileDiag("WindowsUnsafeSnippetFile", PathQ)
    /\ HasFileDiag("MissingSnippetFile", PathG) /\ ~HasFileDiag("WindowsUnsafeSnippetFile", PathG)
    /\ HasFileDiag("MissingSnippetFile", PathB) /\ HasFileDiag("WindowsUnsafeSnippetFile", PathB)

\* -------------------------------------------------------- properties: emitter
InWriteCall == run_pc \in {"write", "done"}
HandledName(i) == ArtifactName(tag_order[i])
HandledCode(i) == all_snippets[tag_order[i]].code
WriteErrorsFor(n) ==
    {i \in 1..Len(write_errors) :
        write_errors[i].kind = "SnippetWriteError" /\ write_errors[i].file = n}

\* C14: write_snippets never overwrites: an artifact that existed when the
\* call began is still there with the same content, and each tag whose
\* artifact existed gets one already-written diagnostic; so a second call
\* with the same mapping reports every artifact the first call left and
\* changes none of them.
C14_NeverOverwrites ==
    InWriteCall =>
        /\ \A n \in DOMAIN disk_before :
              n \in DOMAIN disk /\ disk[n] = disk_before[n]
        /\ \A i \in 1..write_idx :
              HandledName(i) \in DOMAIN disk_before
                => Occurrences(write_errors, SnippetAlreadyWritten(HandledName(i))) = 1

C14_Witness ==
    /\ run_pc = "done"
    /\ emissions = 2
    /\ \E i, j \in 1..write_idx :
          /\ HandledName(i) \in DOMAIN disk_before
          /\ disk[HandledName(i)] = HandledCode(i)
          /\ HandledCode(i) # <<>>
          /\ HandledName(j) \in DOMAIN disk_before
          /\ disk[HandledName(j)] # HandledCode(j)
          /\ Len(write_errors) = 2

\* C15: a failed write is one write-error diagnostic with its cause and does
\* not end the loop: every tag taken so far was handled once (reported
\* already-written, reported write-error, or written in full), the call can
\* always go on, and it returns only after every tag of the mapping.
C15_WriteErrorDoesNotStop ==
    InWriteCall =>
        /\ \A i \in 1..write_idx :
              LET n == HandledName(i)
                  already == Occurrences(write_errors, SnippetAlreadyWritten(n))
                  failed == Cardinality(WriteErrorsFor(n))
              IN  /\ already + failed <= 1
                  /\ already = 1 <=> n \in DOMAIN disk_before
                  /\ (already + failed = 0) => (n \in DOMAIN disk /\ disk[n] = HandledCode(i))
                  /\ \A k \in WriteErrorsFor(n) : write_errors[k].error \in {"open", "write"}
        /\ Len(write_errors) <= write_idx
        /\ run_pc = "write" => ENABLED NextRun
        /\ run_pc = "done" =>
              /\ write_idx = Len(tag_order)
              /\ {tag_order[i] : i \in 1..write_idx} = DOMAIN all_snippets
              /\ Cardinality(DOMAIN all_snippets) = write_idx

C15_Witness ==
    /\ run_pc = "done"
    /\ emissions = 1
    /\ write_idx = 2
    /\ WriteErrorsFor(HandledName(1)) # {}
    /\ WriteErrorsFor(HandledName(2)) = {}
    /\ disk[HandledName(2)] = HandledCode(2)
    /\ HandledCode(2) # <<>>

\* C16: a file that does not decode gives exactly one decode-error diagnostic
\* and no snippet, and the loop goes on: every file of the tree is taken,
\* each decodable one is parsed, and its snippets are in the mapping.
C16_DecodeErrorDoesNotStop ==
    run_pc # "idle" =>
        /\ Len(per_file) = file_idx
        /\ \A i \in 1..file_idx :
              IF tree[i].decodable
              THEN /\ per_file[i] \in parse_snippets(tree[i].lines, i, prefix)
                   /\ DOMAIN per_file[i].snippets \subseteq DOMAIN all_snippets
                   /\ Occurrences(collect_errors, MetadataUnicodeError(i)) = 0
              ELSE /\ per_file[i].snippets = EmptyMap
                   /\ per_file[i].errors = <<MetadataUnicodeError(i)>>
                   /\ Occurrences(collect_errors, MetadataUnicodeError(i)) = 1
        /\ Len(collect_errors) >= Cardinality({i \in 1..file_idx : ~tree[i].decodable})
        /\ InWriteCall => file_idx = Len(tree)

C16_Witness ==
    /\ run_pc = "write"
    /\ file_idx = 2
    /\ ~tree[1].decodable
    /\ tree[2].decodable
    /\ per_file[2].snippets # EmptyMap
    /\ per_file[2].errors # <<>>
    /\ collect_errors = <<MetadataUnicodeError(1)>> \o per_file[2].errors

\* ------------------------------------------- properties: scanner, continued
\* C17: the diagnostics of a finished scan are the same list, in the same
\* order, as those of every scan of the same lines, file and prefix.
C17_DiagnosticsDeterministic ==
    pc = "done" =>
        \A r \in parse_snippets(lines, ParseFile, prefix) : r.errors = errors

MidScan == pc = "scan" /\ line_idx < Len(lines)

\* C18: a closed snippet is never changed again by any later line and its
\* tag never returns to the open set; a tag of the mapping stays in it, and
\* an open tag stays open or becomes closed.
C18_ClosedIsImmutable ==
    [][\A tag \in DOMAIN snippets :
          /\ tag \in DOMAIN snippets'
          /\ Closed(tag) =>
                /\ snippets'[tag] = snippets[tag]
                /\ tag \notin open_tags
                /\ tag \notin open_tags'
          /\ (tag \notin open_tags) => (tag \notin open_tags')]_vars

C18_Witness ==
    \E tag \in DOMAIN snippets :
        /\ Closed(tag)
        /\ snippets[tag].code # <<>>
        /\ line_idx = snippets[tag].line_end + 2
        /\ IsPlain(line_idx)
        /\ tag \notin open_tags

\* C19: after every line, the open set is within the mapping's keys and each
\* snippet is either open (in the open set, line_end -1) or closed (not in
\* the open set, 0 <= line_start < line_end <= index of the last line taken).
C19_OpenScopeAccounting ==
    pc \in {"scan", "done"} =>
        /\ open_tags \subseteq DOMAIN snippets
        /\ \A tag \in DOMAIN snippets :
              IF tag \in open_tags
              THEN snippets[tag].line_end = -1
              ELSE /\ 0 <= snippets[tag].line_start
                   /\ snippets[tag].line_start < snippets[tag].line_end
                   /\ snippets[tag].line_end <= line_idx - 1

C19_Witness ==
    /\ pc = "scan"
    /\ \E t \in open_tags : \E u \in DOMAIN snippets \ open_tags :
          snippets[u].line_start < snippets[t].line_start
              /\ snippets[t].line_start < snippets[u].line_end

\* C20: a line with either marker adds nothing to any snippet's code (a
\* snippet it creates starts empty), and a line with the start marker is a
\* start tag only: it closes no tag, even with an end marker on it.
C20_MarkerLinesAreNotContent ==
    [][(MidScan /\ (Contains(SNIPPET_START, CurLine) \/ Contains(SNIPPET_END, CurLine))) =>
          /\ \A tag \in DOMAIN snippets' :
                snippets'[tag].code
                  = IF tag \in DOMAIN snippets THEN snippets[tag].code ELSE <<>>
          /\ Contains(SNIPPET_START, CurLine) =>
                /\ open_tags \subseteq open_tags'
                /\ \A tag \in DOMAIN snippets :
                      snippets'[tag].line_end = snippets[tag].line_end
                /\ \A i \in 1..Len(errors') :
                      i > Len(errors) => errors'[i].kind = "DuplicateSnippetStartError"]_vars

C20_Witness ==
    /\ pc = "scan"
    /\ line_idx >= 3
    /\ lines[line_idx] = StartAndEnd
    /\ _tag_from_line(SNIPPET_END, StartAndEnd, prefix) \in open_tags
    /\ \E tag \in open_tags : snippets[tag].code # <<>>
====
